---- MODULE Spec2Model ----
(***************************************************************************)
(* Caesar cipher (src/caesar_cipher.py): the codec functions, the batch    *)
(* interface (main / run_cli) and the interactive prompt loop.             *)
(*                                                                         *)
(* A Python str is a sequence of code points; characters are modelled by   *)
(* their code point (ord).  The character predicates (isalpha, isupper,    *)
(* isspace) and lower() are those of Python 3 on the code points 0..255;   *)
(* every character the model draws lies in that range.                     *)
(*                                                                         *)
(* Two specifications share the variables:                                 *)
(*   CodecSpec  a caller applies encrypt / decrypt / brute_force_candidates*)
(*              to a text and a shift drawn from bounded sets;             *)
(*   Spec       one run of the program: main(), then run_cli or the        *)
(*              interactive loop fed with lines of standard input.         *)
(* input() is assumed to return a line (end of input is not modelled).     *)
(***************************************************************************)
EXTENDS Integers, Sequences, FiniteSets, TLC

VARIABLES
    pc,        \* control point of the program run
    argMode,   \* args.mode  ("None" when the flag is absent)
    argShift,  \* args.shift (None or Some(int))
    argText,   \* args.text  (None or Some(str))
    mode,      \* interactive(): local `mode`
    text,      \* interactive(): local `text`
    inputs,    \* the raw lines input() returned in the current loop iteration
    out,       \* the strings passed to print() by the last step taken
    calls,     \* the codec calls made directly by the last step taken
    T,         \* CodecSpec: the caller's text
    S,         \* CodecSpec: the caller's shift
    op,        \* CodecSpec: the last function applied
    res,       \* CodecSpec: the str it returned
    cands      \* CodecSpec: the list brute_force_candidates returned

progVars  == <<pc, argMode, argShift, argText, mode, text, inputs, out, calls>>
codecVars == <<T, S, op, res, cands>>
vars      == <<progVars, codecVars>>

---------------------------------------------------------------------------
(* Bounds of the model *)

\* longest text of the enumerated texts of CodecSpec
MaxLen == 2
\* shifts of CodecSpec range over -MaxShift .. MaxShift
MaxShift == 27

---------------------------------------------------------------------------
(* Python values *)

None == <<>>
Some(x) == <<x>>

ALPHABET_SIZE == 26
OrdUpperA == 65
OrdLowerA == 97

\* str.isalpha() of one character, code points 0..255
IsAlpha(c) ==
    \/ c \in 65..90
    \/ c \in 97..122
    \/ c \in {170, 181, 186}
    \/ c \in 192..214
    \/ c \in 216..246
    \/ c \in 248..255

\* str.isupper() of one character, code points 0..255
IsUpper(c) == c \in 65..90 \/ c \in 192..214 \/ c \in 216..222

\* str.isspace() of one character, code points 0..255
IsSpace(c) == c \in {9, 10, 11, 12, 13, 28, 29, 30, 31, 32, 133, 160}

\* str.lower() of one character, code points 0..255
LowerChar(c) == IF IsUpper(c) THEN c + 32 ELSE c

Lower(s) == [i \in 1..Len(s) |-> LowerChar(s[i])]

RECURSIVE StripLeft(_)
StripLeft(s) ==
    IF s # <<>> /\ IsSpace(Head(s)) THEN StripLeft(Tail(s)) ELSE s

RECURSIVE StripRight(_)
StripRight(s) ==
    IF s # <<>> /\ IsSpace(s[Len(s)])
    THEN StripRight(SubSeq(s, 1, Len(s) - 1))
    ELSE s

\* str.strip()
Strip(s) == StripRight(StripLeft(s))

---------------------------------------------------------------------------
(* The codec *)

normalize_shift_abs(shift) ==
    (IF shift < 0 THEN -shift ELSE shift) % ALPHABET_SIZE

normalize_shift(shift) == shift % ALPHABET_SIZE

shift_char_lowercase_base(ch, shift) ==
    IF IsAlpha(ch)
    THEN ((ch - OrdLowerA + shift) % ALPHABET_SIZE) + OrdLowerA
    ELSE ch

shift_char(ch, shift) ==
    IF IsAlpha(ch)
    THEN LET base == IF IsUpper(ch) THEN OrdUpperA ELSE OrdLowerA
         IN  ((ch - base + shift) % ALPHABET_SIZE) + base
    ELSE ch

encrypt(txt, shift) ==
    LET s == normalize_shift(shift)
    IN  [i \in 1..Len(txt) |-> shift_char(txt[i], s)]

decrypt(txt, shift) == encrypt(txt, -shift)

\* element k+1 is the pair (k, decrypt(text, k)), k = 0 .. 25
brute_force_candidates(txt) ==
    [i \in 1..ALPHABET_SIZE |-> <<i - 1, decrypt(txt, i - 1)>>]

---------------------------------------------------------------------------
(* CodecSpec: the codec functions applied to bounded inputs *)

\* ' ', '3', 'A', 'Z', 'a', 'z', 'E-acute', 'e-acute'
CodecChars == {32, 51, 65, 90, 97, 122, 201, 233}

RECURSIVE TextsUpTo(_)
TextsUpTo(n) ==
    IF n = 0 THEN {<<>>}
    ELSE LET shorter == TextsUpTo(n - 1)
         IN  shorter \cup {Append(t, c) : t \in shorter, c \in CodecChars}

ScenarioTexts ==
    { <<72, 101, 108, 108, 111, 44, 32, 87, 111, 114, 108, 100, 33>>,   \* 'Hello, World!'
      <<75, 104, 111, 111, 114, 44, 32, 90, 114, 117, 111, 103, 33>>,   \* 'Khoor, Zruog!'
      <<97, 98, 99, 88, 89, 90>>,   \* 'abcXYZ'
      <<99, 100, 101, 90, 65, 66>>,   \* 'cdeZAB'
      <<65, 98, 67>>,   \* 'AbC'
      <<66, 99, 68>> }   \* 'BcD'

Texts == TextsUpTo(MaxLen) \cup ScenarioTexts

Shifts == (-MaxShift..MaxShift) \cup {-1000, -52, 52, 1000003}

CodecIdle ==
    /\ T = <<>>
    /\ S = 0
    /\ op = "none"
    /\ res = <<>>
    /\ cands = <<>>

ProgIdle ==
    /\ pc = "NotRun"
    /\ argMode = "None"
    /\ argShift = None
    /\ argText = None
    /\ mode = <<>>
    /\ text = <<>>
    /\ inputs = <<>>
    /\ out = <<>>
    /\ calls = <<>>

CodecInit ==
    /\ T \in Texts
    /\ S \in Shifts
    /\ op = "input"
    /\ res = <<>>
    /\ cands = <<>>
    /\ ProgIdle

CallEncrypt ==
    /\ op = "input"
    /\ res' = encrypt(T, S)
    /\ op' = "encrypt"
    /\ UNCHANGED <<T, S, cands, progVars>>

CallDecrypt ==
    /\ op = "input"
    /\ res' = decrypt(T, S)
    /\ op' = "decrypt"
    /\ UNCHANGED <<T, S, cands, progVars>>

\* decrypt, with the same shift, what encrypt returned
CallDecryptOfEncrypted ==
    /\ op = "encrypt"
    /\ res' = decrypt(res, S)
    /\ op' = "roundtrip"
    /\ UNCHANGED <<T, S, cands, progVars>>

CallBruteForce ==
    /\ op = "input"
    /\ cands' = brute_force_candidates(T)
    /\ op' = "brute"
    /\ UNCHANGED <<T, S, res, progVars>>

CodecNext ==
    \/ CallEncrypt
    \/ CallDecrypt
    \/ CallDecryptOfEncrypted
    \/ CallBruteForce

CodecSpec == CodecInit /\ [][CodecNext]_vars

---------------------------------------------------------------------------
(* Text written by print(): each element of `out` is the str one print()   *)
(* call was given.                                                         *)

\* 'Goodbye!'
GoodbyeMsg == <<71, 111, 111, 100, 98, 121, 101, 33>>
\* 'Please enter E, D, or Q.'
GuidanceMsg == <<80, 108, 101, 97, 115, 101, 32, 101, 110, 116, 101, 114, 32, 69, 44, 32, 68, 44, 32, 111, 114, 32, 81, 46>>
\* 'Shift must be an integer (e.g., 3, -2, 52). Try again.\n'
ShiftErrorMsg == <<83, 104, 105, 102, 116, 32, 109, 117, 115, 116, 32, 98, 101, 32, 97, 110, 32, 105, 110, 116, 101, 103, 101, 114, 32, 40, 101, 46, 103, 46, 44, 32, 51, 44, 32, 45, 50, 44, 32, 53, 50, 41, 46, 32, 84, 114, 121, 32, 97, 103, 97, 105, 110, 46, 10>>
\* '\nTrying all 26 keys... (shift : candidate)'
BruteHeader == <<10, 84, 114, 121, 105, 110, 103, 32, 97, 108, 108, 32, 50, 54, 32, 107, 101, 121, 115, 46, 46, 46, 32, 40, 115, 104, 105, 102, 116, 32, 58, 32, 99, 97, 110, 100, 105, 100, 97, 116, 101, 41>>
\* '\nEncrypted (shift '
EncryptedLabel == <<10, 69, 110, 99, 114, 121, 112, 116, 101, 100, 32, 40, 115, 104, 105, 102, 116, 32>>
\* '\nDecrypted (shift '
DecryptedLabel == <<10, 68, 101, 99, 114, 121, 112, 116, 101, 100, 32, 40, 115, 104, 105, 102, 116, 32>>
\* '): '
LabelClose == <<41, 58, 32>>
\* ' : '
CandidateSep == <<32, 58, 32>>
\* "=" * 60
BannerRule == [i \in 1..60 |-> 61]
\* '                CAESAR CIPHER (interactive)'
BannerTitle == <<32, 32, 32, 32, 32, 32, 32, 32, 32, 32, 32, 32, 32, 32, 32, 32, 67, 65, 69, 83, 65, 82, 32, 67, 73, 80, 72, 69, 82, 32, 40, 105, 110, 116, 101, 114, 97, 99, 116, 105, 118, 101, 41>>
\* 'Tips:'
BannerTips == <<84, 105, 112, 115, 58>>
\* "  • Enter 'E' to Encrypt, 'D' to Decrypt, or 'Q' to quit."
BannerTip1 == <<32, 32, 8226, 32, 69, 110, 116, 101, 114, 32, 39, 69, 39, 32, 116, 111, 32, 69, 110, 99, 114, 121, 112, 116, 44, 32, 39, 68, 39, 32, 116, 111, 32, 68, 101, 99, 114, 121, 112, 116, 44, 32, 111, 114, 32, 39, 81, 39, 32, 116, 111, 32, 113, 117, 105, 116, 46>>
\* "  • For Decrypt, if you don't know the shift, enter '?' to try all keys."
BannerTip2 == <<32, 32, 8226, 32, 70, 111, 114, 32, 68, 101, 99, 114, 121, 112, 116, 44, 32, 105, 102, 32, 121, 111, 117, 32, 100, 111, 110, 39, 116, 32, 107, 110, 111, 119, 32, 116, 104, 101, 32, 115, 104, 105, 102, 116, 44, 32, 101, 110, 116, 101, 114, 32, 39, 63, 39, 32, 116, 111, 32, 116, 114, 121, 32, 97, 108, 108, 32, 107, 101, 121, 115, 46>>

Banner ==
    <<BannerRule, BannerTitle, BannerRule, BannerTips, BannerTip1, BannerTip2, <<>>>>

\* str(n) of an int
RECURSIVE DecimalStr(_)
DecimalStr(n) ==
    IF n < 0 THEN <<45>> \o DecimalStr(-n)
    ELSE IF n < 10 THEN <<48 + n>>
    ELSE Append(DecimalStr(n \div 10), 48 + (n % 10))

\* f"{s:>2}": right-aligned in a field of width 2
PadLeft2(s) == IF Len(s) < 2 THEN <<32>> \o s ELSE s

\* f"{s:>2} : {candidate}"
CandidateLine(pair) == PadLeft2(DecimalStr(pair[1])) \o CandidateSep \o pair[2]

ResultLabelShiftRaw(shift) == shift

\* the shift shown in the result line
ResultLabelShift(shift) == normalize_shift(shift)

\* f"\nEncrypted (shift {normalize_shift(shift)}): {result}\n"
ResultLine(label, shift, result) ==
    label \o DecimalStr(ResultLabelShift(shift)) \o LabelClose \o result \o <<10>>

---------------------------------------------------------------------------
(* int(shift_str) *)

IsDigit(c) == c \in 48..57

\* digits, single underscores allowed between digits
IsIntBody(b) ==
    /\ Len(b) > 0
    /\ IsDigit(b[1])
    /\ IsDigit(b[Len(b)])
    /\ \A i \in 1..Len(b) : IsDigit(b[i]) \/ b[i] = 95
    /\ \A i \in 1..(Len(b) - 1) : ~(b[i] = 95 /\ b[i + 1] = 95)

RECURSIVE IntBodyValue(_)
IntBodyValue(b) ==
    IF b = <<>> THEN 0
    ELSE LET front == SubSeq(b, 1, Len(b) - 1)
             last  == b[Len(b)]
         IN  IF last = 95 THEN IntBodyValue(front)
             ELSE 10 * IntBodyValue(front) + (last - 48)

HasSign(s) == s # <<>> /\ Head(s) \in {43, 45}

IntBody(s) == IF HasSign(s) THEN Tail(s) ELSE s

\* int(s) returns (does not raise ValueError)
IsIntLiteral(s) == IsIntBody(IntBody(Strip(s)))

\* the value int(s) returns
IntValue(s) ==
    LET t == Strip(s)
        v == IntBodyValue(IntBody(t))
    IN  IF HasSign(t) /\ Head(t) = 45 THEN -v ELSE v

---------------------------------------------------------------------------
(* Spec: one run of the program *)

ArgModes == {"None", "encrypt", "decrypt", "bogus"}

ModeChoices == {"encrypt", "decrypt"}

ArgShifts == {0, 3, -MaxShift}

ArgTexts ==
    { <<>>,   \* ''
      <<72, 101, 108, 108, 111, 44, 32, 87, 111, 114, 108, 100, 33>>,   \* 'Hello, World!'
      <<75, 104, 111, 111, 114, 44, 32, 90, 114, 117, 111, 103, 33>> }   \* 'Khoor, Zruog!'

ModeLines ==
    { <<>>,   \* ''
      <<32, 32>>,   \* '  '
      <<113>>,   \* 'q'
      <<81>>,   \* 'Q'
      <<32, 81, 32>>,   \* ' Q '
      <<101>>,   \* 'e'
      <<69>>,   \* 'E'
      <<32, 101>>,   \* ' e'
      <<100>>,   \* 'd'
      <<68>>,   \* 'D'
      <<120>>,   \* 'x'
      <<101, 100>> }   \* 'ed'

TextLines ==
    { <<>>,   \* ''
      <<75, 104, 111, 111, 114>>,   \* 'Khoor'
      <<72, 101, 108, 108, 111, 44, 32, 87, 111, 114, 108, 100, 33>>,   \* 'Hello, World!'
      <<233>>,   \* 'é'
      <<32, 97, 90, 32>> }   \* ' aZ '

ShiftLines ==
    { <<51>>,   \* '3'
      <<45, 51>>,   \* '-3'
      <<32, 51, 32>>,   \* ' 3 '
      <<43, 50, 57>>,   \* '+29'
      <<48>>,   \* '0'
      <<63>>,   \* '?'
      <<32, 63, 32>>,   \* ' ? '
      <<>>,   \* ''
      <<97, 98, 99>>,   \* 'abc'
      <<51, 46, 53>>,   \* '3.5'
      <<49, 95, 48>>,   \* '1_0'
      <<95, 49>>,   \* '_1'
      <<45>>,   \* '-'
      <<63, 63>> }   \* '??'

Init ==
    /\ pc = "Start"
    /\ argMode \in ArgModes
    /\ argShift \in {None} \cup {Some(s) : s \in ArgShifts}
    /\ argText \in {None} \cup {Some(t) : t \in ArgTexts}
    /\ mode = <<>>
    /\ text = <<>>
    /\ inputs = <<>>
    /\ out = <<>>
    /\ calls = <<>>
    /\ CodecIdle

Call(by, fn, txt, shift) == [by |-> by, fn |-> fn, text |-> txt, shift |-> shift]

AllSuppliedTruthy(m, s, t) ==
    /\ m # "None"
    /\ s # None /\ s # Some(0)
    /\ t # None /\ t # Some(<<>>)

\* args.mode and args.shift is not None and args.text is not None
AllSupplied(m, s, t) == m # "None" /\ s # None /\ t # None

run_cli(m, shift, txt) ==
    IF m = "encrypt"
    THEN /\ out' = <<encrypt(txt, shift)>>
         /\ calls' = <<Call("run_cli", "encrypt", txt, Some(shift))>>
    ELSE /\ out' = <<decrypt(txt, shift)>>
         /\ calls' = <<Call("run_cli", "decrypt", txt, Some(shift))>>

\* main(): parse_args, then run_cli or the start of interactive()
Main ==
    /\ pc = "Start"
    /\ IF argMode # "None" /\ argMode \notin ModeChoices
       THEN \* argparse: invalid choice, usage on stderr, exit status 2
            /\ pc' = "UsageExit"
            /\ UNCHANGED <<out, calls>>
       ELSE IF AllSupplied(argMode, argShift, argText)
       THEN /\ run_cli(argMode, argShift[1], argText[1])
            /\ pc' = "BatchDone"
       ELSE /\ out' = Banner
            /\ calls' = <<>>
            /\ pc' = "AwaitMode"
    /\ UNCHANGED <<argMode, argShift, argText, mode, text, inputs, codecVars>>

ModeKeyNoLower(line) == Strip(line)

\* input("Mode [E/D/Q]: ").strip().lower()
ModeKey(line) == Lower(Strip(line))

\* top of the while loop: read the mode
ReadMode ==
    /\ pc = "AwaitMode"
    /\ \E line \in ModeLines :
         LET m == ModeKey(line)
         IN  /\ inputs' = <<line>>
             /\ mode' = m
             /\ calls' = <<>>
             /\ IF m = <<>>
                THEN pc' = "AwaitMode" /\ out' = <<>>
                ELSE IF m = <<113>>
                THEN pc' = "Terminated" /\ out' = <<GoodbyeMsg>>
                ELSE IF m \notin {<<101>>, <<100>>}
                THEN pc' = "AwaitMode" /\ out' = <<GuidanceMsg>>
                ELSE pc' = "AwaitText" /\ out' = <<>>
    /\ UNCHANGED <<argMode, argShift, argText, text, codecVars>>

\* text = input("Enter your message: ")
ReadText ==
    /\ pc = "AwaitText"
    /\ \E line \in TextLines :
         /\ inputs' = Append(inputs, line)
         /\ text' = line
    /\ pc' = "AwaitShift"
    /\ out' = <<>>
    /\ calls' = <<>>
    /\ UNCHANGED <<argMode, argShift, argText, mode, codecVars>>

IsBruteForceRequestAnyMode(m, shift_str) == shift_str = <<63>>

\* mode == 'd' and shift_str == '?'
IsBruteForceRequest(m, shift_str) == m = <<100>> /\ shift_str = <<63>>

BruteForceBranch ==
    LET cs == brute_force_candidates(text)
    IN  /\ out' = <<BruteHeader>> \o [i \in 1..Len(cs) |-> CandidateLine(cs[i])] \o <<<<>>>>
        /\ calls' = <<Call("interactive", "brute_force_candidates", text, None)>>
        /\ pc' = "AwaitMode"

CodecBranch(shift) ==
    /\ IF mode = <<101>>
       THEN /\ out' = <<ResultLine(EncryptedLabel, shift, encrypt(text, shift))>>
            /\ calls' = <<Call("interactive", "encrypt", text, Some(shift))>>
       ELSE /\ out' = <<ResultLine(DecryptedLabel, shift, decrypt(text, shift))>>
            /\ calls' = <<Call("interactive", "decrypt", text, Some(shift))>>
    /\ pc' = "AwaitMode"

ShiftErrorDefaultsToZero == CodecBranch(0)

\* except ValueError: print the message, continue
ShiftErrorBranch ==
    /\ out' = <<ShiftErrorMsg>>
    /\ calls' = <<>>
    /\ pc' = "AwaitMode"

\* read the shift and finish the iteration
ReadShift ==
    /\ pc = "AwaitShift"
    /\ \E line \in ShiftLines :
         LET shift_str == Strip(line)
         IN  /\ inputs' = Append(inputs, line)
             /\ IF IsBruteForceRequest(mode, shift_str)
                THEN BruteForceBranch
                ELSE IF ~IsIntLiteral(shift_str)
                THEN ShiftErrorBranch
                ELSE CodecBranch(IntValue(shift_str))
    /\ UNCHANGED <<argMode, argShift, argText, mode, text, codecVars>>

Next ==
    \/ Main
    \/ ReadMode
    \/ ReadText
    \/ ReadShift

Spec == Init /\ [][Next]_vars

---------------------------------------------------------------------------
(* Properties of the codec, checked under CodecSpec *)

IsAsciiUpper(c) == c \in 65..90
IsAsciiLower(c) == c \in 97..122
IsAsciiLetter(c) == IsAsciiUpper(c) \/ IsAsciiLower(c)

\* the canonical representative of s modulo 26, in 0..25
Mod26(s) == s % 26

\* C1: round-trip law.  For every text T and every integer shift S,
\* decrypt(encrypt(T, S), S) is T itself, character for character.
C1_RoundTrip == op = "roundtrip" => res = T

\* C2: every character other than the 52 ASCII letters is left unchanged by
\* encrypt and by decrypt, whatever the shift.
C2_NonLettersUnchanged ==
    op \in {"encrypt", "decrypt"} =>
        /\ Len(res) = Len(T)
        /\ \A i \in 1..Len(T) : ~IsAsciiLetter(T[i]) => res[i] = T[i]

\* C3: an ASCII letter is mapped to the letter of the same case at alphabet
\* position (position + S) mod 26 by encrypt (position - S by decrypt), the
\* remainder being non-negative also for negative S; encrypt("abcXYZ", 2) is
\* "cdeZAB" and encrypt("AbC", 1) is "BcD".
C3_LetterShift ==
    /\ op \in {"encrypt", "decrypt"} =>
          LET k == IF op = "encrypt" THEN S ELSE -S
          IN  /\ Len(res) = Len(T)
              /\ \A i \in 1..Len(T) :
                    /\ IsAsciiUpper(T[i]) => res[i] = 65 + Mod26((T[i] - 65) + k)
                    /\ IsAsciiLower(T[i]) => res[i] = 97 + Mod26((T[i] - 97) + k)
    /\ (op = "encrypt" /\ T = <<97, 98, 99, 88, 89, 90>> /\ S = 2)
          => res = <<99, 100, 101, 90, 65, 66>>
    /\ (op = "encrypt" /\ T = <<65, 98, 67>> /\ S = 1) => res = <<66, 99, 68>>

\* encrypt("Az", -1) = "Zy": a negative shift wraps around the alphabet
C3_Witness ==
    /\ op = "encrypt"
    /\ S = -1
    /\ T = <<65, 122>>
    /\ res = <<90, 121>>

\* C4: shift normalization.  encrypt(T, S) is encrypt(T, S mod 26), and any
\* two shifts equal modulo 26 give the same result, for encrypt and decrypt.
C4_ShiftNormalization ==
    /\ op = "encrypt" =>
          /\ res = encrypt(T, Mod26(S))
          /\ \A s2 \in Shifts : Mod26(s2 - S) = 0 => encrypt(T, s2) = res
    /\ op = "decrypt" =>
          /\ res = decrypt(T, Mod26(S))
          /\ \A s2 \in Shifts : Mod26(s2 - S) = 0 => decrypt(T, s2) = res

\* encrypt("a", -27) = "z", the result of the canonical shift 25
C4_Witness ==
    /\ op = "encrypt"
    /\ S = -27
    /\ T = <<97>>
    /\ res = <<122>>

\* C5: brute_force_candidates(T) is 26 pairs with shifts 0, 1, ..., 25 in
\* ascending order, pair k holding decrypt(T, k), and pair 0 holding T itself.
C5_BruteForce ==
    op = "brute" =>
        /\ Len(cands) = 26
        /\ \A k \in 0..25 : cands[k + 1] = <<k, decrypt(T, k)>>
        /\ cands[1][2] = T

---------------------------------------------------------------------------
(* Properties of the program run, checked under Spec *)

InteractiveStates == {"AwaitMode", "AwaitText", "AwaitShift", "Terminated"}

C6_Dispatch ==
    LET supplied == argMode # "None" /\ argShift # None /\ argText # None
    IN  /\ pc = "BatchDone" =>
              /\ supplied
              /\ calls = <<Call("run_cli", argMode, argText[1], argShift)>>
              /\ out = <<IF argMode = "encrypt"
                         THEN encrypt(argText[1], argShift[1])
                         ELSE decrypt(argText[1], argShift[1])>>
        /\ pc \in InteractiveStates =>
              /\ ~supplied
              /\ \A i \in 1..Len(calls) : calls[i].by # "run_cli"

\* C6: batch dispatch.  main takes the batch path exactly when mode, shift
\* and text are all supplied (shift 0 and the empty text count as supplied);
\* it then makes one codec call in the direction of mode, prints that one
\* result and ends, never entering the interactive loop; otherwise it enters
\* the interactive loop and makes no batch codec call.
C6_BatchDispatch ==
    /\ []C6_Dispatch
    /\ [][pc = "BatchDone" => pc' = "BatchDone" /\ out' = out /\ calls' = calls]_vars

\* the batch path taken with shift 0 and the empty text
C6_Witness ==
    /\ pc = "BatchDone"
    /\ argShift = Some(0)
    /\ argText = Some(<<>>)
    /\ Len(calls) = 1

\* a step of the loop that read the mode line
ModeStep == pc = "AwaitMode" /\ Len(inputs') = 1 /\ vars' # vars

\* the loop is left only from AwaitMode
TerminatedOnlyFromAwaitMode ==
    (pc' = "Terminated" /\ pc # "Terminated") => pc = "AwaitMode"

\* C7 as stated: the mode input itself, compared case-insensitively, decides.
C7_ModeInputAsTyped ==
    [][/\ ModeStep =>
            LET m == Lower(inputs'[1])
            IN  /\ m = <<113>> => pc' = "Terminated" /\ out' = <<GoodbyeMsg>>
                /\ m \in {<<101>>, <<100>>} => pc' = "AwaitText"
                /\ m \notin {<<113>>, <<101>>, <<100>>} => pc' = "AwaitMode"
       /\ TerminatedOnlyFromAwaitMode]_vars

\* C7 (amended): the mode input with leading and trailing whitespace removed,
\* compared case-insensitively, decides the transition out of AwaitMode: "q"
\* leads to Terminated after the farewell, "e" or "d" to AwaitText, anything
\* else (empty included) stays in AwaitMode; Terminated is entered by no
\* other transition.
C7_ModeTransitions ==
    [][/\ ModeStep =>
            LET m == Lower(Strip(inputs'[1]))
            IN  /\ m = <<113>> => pc' = "Terminated" /\ out' = <<GoodbyeMsg>>
                /\ m \in {<<101>>, <<100>>} => pc' = "AwaitText"
                /\ m \notin {<<113>>, <<101>>, <<100>>} => pc' = "AwaitMode"
       /\ TerminatedOnlyFromAwaitMode]_vars

\* the loop ended by the line " Q "
C7_Witness ==
    /\ pc = "Terminated"
    /\ inputs = <<<<32, 81, 32>>>>
    /\ out = <<GoodbyeMsg>>

\* a step of the loop that read the shift line
ShiftStep == pc = "AwaitShift" /\ Len(inputs') = 3

\* the mode chosen in the iteration that is reading its shift
CycleMode == Lower(Strip(inputs'[1]))

\* C8: a shift input that does not parse as an integer (and is not the
\* Decrypt-mode "?" request) prints the error message and nothing else, calls
\* neither the codec nor the enumerator, and returns to AwaitMode; the next
\* iteration reads mode, text and shift anew.
C8_ShiftParseError ==
    [][/\ ShiftStep =>
            LET line == inputs'[3]
            IN  (~IsIntLiteral(line) /\ ~(CycleMode = <<100>> /\ Strip(line) = <<63>>))
                    => /\ pc' = "AwaitMode"
                       /\ out' = <<ShiftErrorMsg>>
                       /\ calls' = <<>>
       /\ (pc = "AwaitMode" /\ pc' = "AwaitText") =>
              Len(inputs') = 1 /\ mode' = Lower(Strip(inputs'[1]))
       /\ (pc' = "AwaitShift") =>
              pc = "AwaitText" /\ Len(inputs') = 2 /\ text' = inputs'[2]]_vars

\* the shift line "abc" was rejected
C8_Witness ==
    /\ pc = "AwaitMode"
    /\ Len(inputs) = 3
    /\ inputs[3] = <<97, 98, 99>>
    /\ out = <<ShiftErrorMsg>>
    /\ calls = <<>>

BruteForceInvoked ==
    \E i \in 1..Len(calls') : calls'[i].fn = "brute_force_candidates"

\* "{k:>2}" for k in 0..25
ShiftLabel(k) == IF k < 10 THEN <<32, 48 + k>> ELSE <<48 + (k \div 10), 48 + (k % 10)>>

BruteForceOutcome ==
    /\ calls' = <<Call("interactive", "brute_force_candidates", inputs'[2], None)>>
    /\ pc' = "AwaitMode"
    /\ Len(out') = 28
    /\ out'[1] = BruteHeader
    /\ \A k \in 0..25 :
          out'[k + 2] = ShiftLabel(k) \o <<32, 58, 32>> \o decrypt(inputs'[2], k)
    /\ out'[28] = <<>>

QuestionInEncryptMode ==
    (CycleMode = <<101>> /\ Strip(inputs'[3]) = <<63>>) =>
        /\ out' = <<ShiftErrorMsg>>
        /\ calls' = <<>>
        /\ pc' = "AwaitMode"

\* "d", "Khoor", "?" prints the line " 3 : Hello"
Scenario5 ==
    inputs' = <<<<100>>, <<75, 104, 111, 111, 114>>, <<63>>>> =>
        out'[5] = <<32, 51, 32, 58, 32, 72, 101, 108, 108, 111>>

\* C9 as stated: the enumerator runs iff the mode is Decrypt and the shift
\* input is exactly "?".
C9_ExactQuestionMark ==
    [][ShiftStep =>
          /\ BruteForceInvoked <=> (CycleMode = <<100>> /\ inputs'[3] = <<63>>)
          /\ BruteForceInvoked => BruteForceOutcome
          /\ QuestionInEncryptMode]_vars

\* C9 (amended): at AwaitShift the enumerator is invoked if and only if the
\* mode of this iteration is Decrypt and the shift input, with leading and
\* trailing whitespace removed, is "?"; it then prints the 26 candidates
\* labelled by shift and returns to AwaitMode without a single-shift codec
\* call; in Encrypt mode "?" is handled as a shift-parse error.
C9_BruteForceRequest ==
    [][ShiftStep =>
          /\ BruteForceInvoked <=> (CycleMode = <<100>> /\ Strip(inputs'[3]) = <<63>>)
          /\ BruteForceInvoked => BruteForceOutcome
          /\ QuestionInEncryptMode
          /\ Scenario5]_vars

\* the enumerator ran on the shift line " ? "
C9_Witness ==
    /\ pc = "AwaitMode"
    /\ Len(inputs) = 3
    /\ inputs[3] = <<32, 63, 32>>
    /\ Len(calls) = 1
    /\ calls[1].fn = "brute_force_candidates"
    /\ Len(out) = 28

\* C10: when the shift input parses as an integer s, the iteration makes one
\* codec call, on the text and in the direction of the mode read in this same
\* iteration, prints that result labelled with s mod 26 (in 0..25) and returns
\* to AwaitMode; only the three lines of this iteration decide the result.
C10_IntegerShift ==
    [][(ShiftStep /\ IsIntLiteral(inputs'[3])) =>
          LET txt == inputs'[2]
              s   == IntValue(inputs'[3])
              enc == CycleMode = <<101>>
              r   == IF enc THEN encrypt(txt, s) ELSE decrypt(txt, s)
          IN  /\ CycleMode \in {<<101>>, <<100>>}
              /\ calls' = <<Call("interactive", IF enc THEN "encrypt" ELSE "decrypt",
                                 txt, Some(s))>>
              /\ Mod26(s) \in 0..25
              /\ out' = <<(IF enc THEN EncryptedLabel ELSE DecryptedLabel)
                          \o DecimalStr(Mod26(s)) \o <<41, 58, 32>> \o r \o <<10>>>>
              /\ pc' = "AwaitMode"]_vars

\* "Khoor" encrypted with the shift line "+29", shown as shift 3
C10_Witness ==
    /\ pc = "AwaitMode"
    /\ Len(inputs) = 3
    /\ inputs[2] = <<75, 104, 111, 111, 114>>
    /\ inputs[3] = <<43, 50, 57>>
    /\ Len(calls) = 1
    /\ calls[1] = Call("interactive", "encrypt", inputs[2], Some(29))
    /\ out = <<EncryptedLabel \o <<51>> \o LabelClose
               \o <<78, 107, 114, 114, 117>> \o <<10>>>>

====
